---- MODULE Spec2Model ----
(***************************************************************************)
(* A model of code2prompt.py: the directory walk with its include/exclude  *)
(* and .gitignore filtering (gather_project_files_content), the per-file   *)
(* reader and formatter (get_file_contents and the record built from it),  *)
(* the diff collector (get_git_diff) and the main pipeline (main).         *)
(*                                                                         *)
(* Text is a sequence of one-character strings (boilerplate literals are   *)
(* kept as single chunks).  A path is a sequence of names, a name a        *)
(* sequence of characters.  A glob pattern is text in which "/" separates  *)
(* the segments and "*" and "?" are wildcards.                             *)
(***************************************************************************)
EXTENDS Integers, Sequences, FiniteSets, TLC

\* ------------------------------------------------------------------ bounds

\* The longest include list and the longest exclude list that are drawn.
MaxPats == 1

\* The longest file text the formatter is applied to on its own.
MaxText == 3

\* ------------------------------------------------------------------- text

RECURSIVE Concat(_)
\* ''.join(seqs)
Concat(seqs) ==
    IF seqs = <<>> THEN <<>> ELSE Head(seqs) \o Concat(Tail(seqs))

RECURSIVE JoinWith(_, _)
\* sep.join(seqs)
JoinWith(sep, seqs) ==
    IF seqs = <<>> THEN <<>>
    ELSE IF Len(seqs) = 1 THEN Head(seqs)
    ELSE Head(seqs) \o sep \o JoinWith(sep, Tail(seqs))

RECURSIVE SplitLinesKeep(_)
\* file.readlines(): the lines of a text, each keeping its line ending
SplitLinesKeep(t) ==
    IF t = <<>> THEN <<>>
    ELSE LET nls == {i \in 1..Len(t) : t[i] = "\n"}
         IN  IF nls = {} THEN <<t>>
             ELSE LET k == CHOOSE i \in nls : \A j \in nls : i <= j
                  IN  <<SubSeq(t, 1, k)>> \o SplitLinesKeep(SubSeq(t, k + 1, Len(t)))

\* str(n) for the line numbers that occur (one decimal digit per chunk)
Digit(n) ==
    CASE n = 0 -> "0" [] n = 1 -> "1" [] n = 2 -> "2" [] n = 3 -> "3"
      [] n = 4 -> "4" [] n = 5 -> "5" [] n = 6 -> "6" [] n = 7 -> "7"
      [] n = 8 -> "8" [] n = 9 -> "9"

RECURSIVE IntToText(_)
IntToText(n) ==
    IF n < 10 THEN <<Digit(n)>> ELSE IntToText(n \div 10) \o <<Digit(n % 10)>>

\* ------------------------------------------------------------------ paths

\* str(path): the names joined by "/"
PathStr(path) == JoinWith(<<"/">>, path)

\* Path.suffix: the last name's final "." and what follows it, when that dot
\* is neither the first nor the last character of the name
Suffix(path) ==
    LET name == path[Len(path)]
        dots == {i \in 1..Len(name) : name[i] = "."}
    IN  IF dots = {} THEN <<>>
        ELSE LET i == CHOOSE d \in dots : \A e \in dots : e <= d
             IN  IF 1 < i /\ i < Len(name) THEN SubSeq(name, i, Len(name))
                 ELSE <<>>

\* path.relative_to(directory)
RelativeTo(path, directory) == SubSeq(path, Len(directory) + 1, Len(path))

RECURSIVE FnMatch(_, _)
\* fnmatch.fnmatchcase(name, pat), for patterns of literals, "*" and "?"
FnMatch(name, pat) ==
    IF pat = <<>> THEN name = <<>>
    ELSE IF Head(pat) = "*"
         THEN \/ FnMatch(name, Tail(pat))
              \/ (name # <<>> /\ FnMatch(Tail(name), pat))
    ELSE IF name = <<>> THEN FALSE
    ELSE IF Head(pat) = "?" THEN FnMatch(Tail(name), Tail(pat))
    ELSE Head(pat) = Head(name) /\ FnMatch(Tail(name), Tail(pat))

RECURSIVE SplitOn(_, _)
\* text.split(sep) for a one-character separator
SplitOn(t, sep) ==
    LET at == {i \in 1..Len(t) : t[i] = sep}
    IN  IF at = {} THEN <<t>>
        ELSE LET k == CHOOSE i \in at : \A j \in at : i <= j
             IN  <<SubSeq(t, 1, k - 1)>> \o SplitOn(SubSeq(t, k + 1, Len(t)), sep)

RECURSIVE Strip(_)
\* text.strip(): leading and trailing blanks removed
Strip(t) ==
    IF t = <<>> THEN t
    ELSE IF Head(t) = " " THEN Strip(Tail(t))
    ELSE IF t[Len(t)] = " " THEN Strip(SubSeq(t, 1, Len(t) - 1))
    ELSE t

\* [pattern.strip() for pattern in patterns.split(',')] if patterns else []
ParsePatterns(patterns) ==
    IF patterns = <<>> THEN <<>>
    ELSE LET raw == SplitOn(patterns, ",")
         IN  [i \in 1..Len(raw) |-> Strip(raw[i])]

\* The segments pathlib parses a relative pattern into: the pattern split on
\* "/", with empty and "." segments dropped
PatternParts(pattern) ==
    SelectSeq(SplitOn(pattern, "/"), LAMBDA seg : seg # <<>> /\ seg # <<".">>)

\* Path.match(pattern) for a relative pattern with at least one segment: the
\* segments are matched against the path's last names, right-aligned
PathMatch(path, pattern) ==
    LET pat_parts == PatternParts(pattern)
    IN  /\ Len(pat_parts) <= Len(path)
        /\ \A i \in 1..Len(pat_parts) :
              FnMatch(path[Len(path) - Len(pat_parts) + i], pat_parts[i])

RECURSIVE AnyMatch(_, _)
\* any(path.match(pattern) for pattern in patterns): "true", "false", or
\* "raise" when a pattern without segments is reached before a match
\* (Path.match raises ValueError("empty pattern")); any() stops at the
\* first match
AnyMatch(path, patterns) ==
    IF patterns = <<>> THEN "false"
    ELSE IF PatternParts(Head(patterns)) = <<>> THEN "raise"
    ELSE IF PathMatch(path, Head(patterns)) THEN "true"
    ELSE AnyMatch(path, Tail(patterns))

\* ------------------------------------------------------- the file system

\* The directory given on the command line, and the tree below it:
\*   p/a.g  p/b.m  p/v/s/a.g  p/d/
Root == << <<"p">> >>
DirV == Root \o << <<"v">> >>
DirS == DirV \o << <<"s">> >>
DirD == Root \o << <<"d">> >>
FileA == Root \o << <<"a", ".", "g">> >>
FileB == Root \o << <<"b", ".", "m">> >>
FileSA == DirS \o << <<"a", ".", "g">> >>

Files == {FileA, FileB, FileSA}

\* os.scandir(top): the names of the subdirectories of `top`, in listing order
ListDirs(top) ==
    CASE top = Root -> << <<"v">>, <<"d">> >>
      [] top = DirV -> << <<"s">> >>
      [] OTHER -> <<>>

\* os.scandir(top): the names of the files of `top`, in listing order
ListFiles(top) ==
    CASE top = Root -> << <<"a", ".", "g">>, <<"b", ".", "m">> >>
      [] top = DirS -> << <<"a", ".", "g">> >>
      [] OTHER -> <<>>

\* What reading a file can give: text, nothing (a zero-length file), or an
\* error (open() or the UTF-8 decoding raises)
FileStates == {"text", "empty", "unreadable"}

\* The text of a file in state "text"
SomeText == <<"x", "\n", "y", "\n">>

\* The .gitignore at the root: absent, or a predicate (parse_gitignore's
\* result) given by the paths it is true of
NoGitignore == [present |-> FALSE, ignored |-> {}]
IgnoreRules ==
    { NoGitignore,
      [present |-> TRUE, ignored |-> {FileB}],
      [present |-> TRUE, ignored |-> {DirV, DirS, FileSA}] }

\* The pattern strings --include and --exclude are built from:
\*   "*.g"   "v"   "s/*"   " "
PatternStrings ==
    { <<"*", ".", "g">>, <<"v">>, <<"s", "/", "*">>, <<" ">> }

\* The values of --include and of --exclude: nothing, or up to MaxPats
\* pattern strings separated by commas
PatternArgs ==
    {<<>>} \cup
    { JoinWith(<<",">>, l) :
        l \in UNION { [1..n -> PatternStrings] : n \in 1..MaxPats } }

\* ------------------------------------------------------------------ state

VARIABLES
    \* inputs of gather_project_files_content, and the file system it reads
    include_patterns,   \* --include: a comma-separated string, <<>> for none
    exclude_patterns,   \* --exclude: a comma-separated string, <<>> for none
    line_numbers,       \* --line-number
    codeblock,          \* not --no-codeblock
    gitignore,          \* the gitignore argument: a member of IgnoreRules
    rootExists,         \* whether the directory exists and can be listed
    fstate,             \* what reading each file gives: [Files -> FileStates]
    \* the run
    pc,                 \* where the run is
    stack,              \* os.walk: the directories still to be yielded
    all_files,          \* gather_project_files_content's result list
    visited,            \* the directories os.walk has yielded
    evaluated,          \* the paths an ignore or pattern predicate was called on
    pruned,             \* the directories the ignore rule or an exclude
                        \* pattern was true of when their parent was walked
    noFail_files,       \* all_files of the same walk over the tree without
                        \* its unreadable files (for comparison only)
    \* main
    args,               \* the parsed command line
    env,                \* the directory's place and its .gitignore
    cwd,                \* the process's working directory
    git,                \* the git command get_git_diff ran, and how it ended
    git_diff_output,    \* main's git_diff_output
    template_content,   \* which template was loaded
    token_count,        \* main's token_count
    output_content,     \* the rendered prompt
    stdout,             \* what was printed, in order
    saved,              \* where save_to_file wrote, if it did
    clipboard,          \* whether the prompt was copied to the clipboard
    error,              \* the exception that ended the run, if one did
    \* the formatter on its own
    fmt                 \* one file formatted with and without a code block

walkInputs ==
    << include_patterns, exclude_patterns, line_numbers, codeblock, rootExists,
       fstate >>

walkState == << stack, all_files, visited, evaluated, pruned, noFail_files >>

mainVars ==
    << args, env, cwd, git, git_diff_output, template_content, token_count,
       output_content, stdout, saved, clipboard, error >>

vars == << walkInputs, gitignore, pc, walkState, mainVars, fmt >>

\* Lines 49-50: the parsed pattern lists
includes == ParsePatterns(include_patterns)
excludes == ParsePatterns(exclude_patterns)

\* -------------------------------------------------------------- formatter

\* ''.join(f"{idx+1}: {line}" for idx, line in enumerate(lines))
NumberLines(text) ==
    LET lines == SplitLinesKeep(text)
    IN  Concat([i \in 1..Len(lines) |-> IntToText(i) \o <<": ">> \o lines[i]])

\* What opening and reading a file in state `st` gives: an exception, or
\* the file's text
ReadResult(st) ==
    [ raises |-> st = "unreadable",
      text |-> IF st = "text" THEN SomeText ELSE <<>> ]

\* get_file_contents changed to return the error's message, not "", when
\* reading raises
GetFileContents_ErrorText(rd, lineno) ==
    IF rd.raises THEN <<"Error reading">>
    ELSE IF lineno THEN NumberLines(rd.text)
    ELSE rd.text

\* get_file_contents(file_path, line_numbers), given what reading the file
\* gives: the text, numbered when asked, and "" when reading raises
GetFileContents(rd, lineno) ==
    IF rd.raises THEN <<>>
    ELSE IF lineno THEN NumberLines(rd.text)
    ELSE rd.text

\* file_path.suffix[1:]
ExtLabel(file_path) ==
    LET suffix == Suffix(file_path)
    IN  IF suffix = <<>> THEN <<>> ELSE Tail(suffix)

\* The backtick character (written as a name: the lexer takes none in a
\* string), and the three of them that open and close a code block
Backtick == "bq"
Fence == <<Backtick, Backtick, Backtick>>

\* Lines 79-82 changed to put the closing fence right after the content,
\* without the newline between them
FormattedContent_FenceJoined(relative_path, file_path, content, cb) ==
    IF cb
    THEN <<"### ">> \o PathStr(relative_path) \o <<"\n">> \o Fence
            \o ExtLabel(file_path) \o <<"\n">> \o content \o Fence \o <<"\n">>
    ELSE <<"### ">> \o PathStr(relative_path) \o <<"\n">> \o content \o <<"\n">>

\* Lines 79-82: the formatted content of one record
FormattedContent(relative_path, file_path, content, cb) ==
    IF cb
    THEN <<"### ">> \o PathStr(relative_path) \o <<"\n">> \o Fence
            \o ExtLabel(file_path) \o <<"\n">> \o content \o <<"\n">> \o Fence
            \o <<"\n">>
    ELSE <<"### ">> \o PathStr(relative_path) \o <<"\n">> \o content \o <<"\n">>

\* Lines 83-87: the record appended for a file
FileRecord(file_path, directory, content, cb) ==
    LET relative_path == RelativeTo(file_path, directory)
    IN  [ path |-> PathStr(relative_path),
          content |-> content,
          formatted_content |->
              FormattedContent(relative_path, file_path, content, cb) ]

\* ------------------------------------------------------------------- walk

\* gitignore and gitignore(path)
Ignored(path) == gitignore.present /\ path \in gitignore.ignored

\* Line 56: dirs[:] = [d for d in dirs if not (gitignore and gitignore(...))]
KeepNotIgnored(top, dirs) ==
    SelectSeq(dirs, LAMBDA d : ~Ignored(top \o <<d>>))

RECURSIVE RemoveExcluded_Rebind(_, _, _)
\* Lines 58-61 changed to build a new list for each match instead of removing
\* from dirs in place: the list os.walk descends into stays as it was
RemoveExcluded_Rebind(top, todo, acc) ==
    IF todo = <<>> \/ acc.raised THEN acc
    ELSE LET d == Head(todo)
             m == AnyMatch(top \o <<d>>, excludes)
             ev == IF excludes = <<>> THEN acc.evaluated
                   ELSE acc.evaluated \cup {top \o <<d>>}
         IN  RemoveExcluded_Rebind(top, Tail(todo),
               [ dirs |-> acc.dirs,
                 evaluated |-> ev,
                 matched |-> IF m = "true" THEN acc.matched \cup {top \o <<d>>}
                             ELSE acc.matched,
                 raised |-> m = "raise" ])

RECURSIVE RemoveExcluded(_, _, _)
\* Lines 58-61: for d in list(dirs): remove d from dirs when an exclude
\* pattern matches its path.  `todo` is the copy being iterated, `acc` holds
\* dirs, the paths a pattern was tried on, the paths a pattern matched, and
\* whether Path.match raised
RemoveExcluded(top, todo, acc) ==
    IF todo = <<>> \/ acc.raised THEN acc
    ELSE LET d == Head(todo)
             m == AnyMatch(top \o <<d>>, excludes)
             ev == IF excludes = <<>> THEN acc.evaluated
                   ELSE acc.evaluated \cup {top \o <<d>>}
         IN  RemoveExcluded(top, Tail(todo),
               [ dirs |-> IF m = "true"
                          THEN SelectSeq(acc.dirs, LAMBDA e : e # d)
                          ELSE acc.dirs,
                 evaluated |-> ev,
                 matched |-> IF m = "true" THEN acc.matched \cup {top \o <<d>>}
                             ELSE acc.matched,
                 raised |-> m = "raise" ])

\* Lines 64-87 changed to test the include patterns first and to keep a file
\* an include pattern matches without asking the exclude patterns
ProcessFile_IncludeWins(acc, top, file_name) ==
    LET file_path == top \o <<file_name>>
        ex == AnyMatch(file_path, excludes)
        inc == AnyMatch(file_path, includes)
        content == GetFileContents(ReadResult(fstate[file_path]), line_numbers)
        ev == IF gitignore.present \/ excludes # <<>> \/ includes # <<>>
              THEN acc.evaluated \cup {file_path}
              ELSE acc.evaluated
        keep == IF content # <<>>
                THEN [acc EXCEPT !.evaluated = ev,
                                 !.all_files = Append(acc.all_files,
                                     FileRecord(file_path, Root, content, codeblock))]
                ELSE [acc EXCEPT !.evaluated = ev]
    IN  IF Ignored(file_path)
        THEN [acc EXCEPT !.evaluated = ev]
        ELSE IF includes # <<>> /\ inc = "raise"
        THEN [acc EXCEPT !.evaluated = ev, !.raised = TRUE]
        ELSE IF includes # <<>> /\ inc = "true"
        THEN keep
        ELSE IF includes # <<>>
        THEN [acc EXCEPT !.evaluated = ev]
        ELSE IF ex = "raise"
        THEN [acc EXCEPT !.evaluated = ev, !.raised = TRUE]
        ELSE IF ex = "true"
        THEN [acc EXCEPT !.evaluated = ev]
        ELSE keep

\* Lines 64-87: the loop body for one file.  `acc` holds all_files, the paths
\* a predicate was called on, and whether Path.match raised
ProcessFile(acc, top, file_name) ==
    LET file_path == top \o <<file_name>>
        ex == AnyMatch(file_path, excludes)
        inc == AnyMatch(file_path, includes)
        content == GetFileContents(ReadResult(fstate[file_path]), line_numbers)
        ev == IF gitignore.present \/ excludes # <<>>
                 \/ (~Ignored(file_path) /\ ex = "false" /\ includes # <<>>)
              THEN acc.evaluated \cup {file_path}
              ELSE acc.evaluated
    IN  IF Ignored(file_path)
        THEN [acc EXCEPT !.evaluated = ev]
        ELSE IF ex = "raise"
        THEN [acc EXCEPT !.evaluated = ev, !.raised = TRUE]
        ELSE IF ex = "true"
        THEN [acc EXCEPT !.evaluated = ev]
        ELSE IF includes # <<>> /\ inc = "raise"
        THEN [acc EXCEPT !.evaluated = ev, !.raised = TRUE]
        ELSE IF includes # <<>> /\ inc = "false"
        THEN [acc EXCEPT !.evaluated = ev]
        ELSE IF content # <<>>
        THEN [acc EXCEPT !.evaluated = ev,
                         !.all_files = Append(acc.all_files,
                             FileRecord(file_path, Root, content, codeblock))]
        ELSE [acc EXCEPT !.evaluated = ev]

RECURSIVE FileLoop(_, _, _)
\* Line 63: for file_name in files, until Path.match raises
FileLoop(acc, top, files) ==
    IF files = <<>> \/ acc.raised THEN acc
    ELSE FileLoop(ProcessFile(acc, top, Head(files)), top, Tail(files))

\* Lines 45-52: the call of gather_project_files_content, up to os.walk
GatherStart ==
    /\ pc = "gather"
    /\ pc' = "walk"
    /\ all_files' = <<>>
    /\ noFail_files' = <<>>
    /\ stack' = <<Root>>
    /\ UNCHANGED << walkInputs, gitignore, visited, evaluated, pruned, mainVars, fmt >>

\* os.walk finds the directory missing or unreadable: scandir's error is
\* dropped (onerror is None) and nothing is yielded for it
WalkMissing ==
    /\ pc = "walk"
    /\ stack # <<>>
    /\ ~rootExists
    /\ stack' = Tail(stack)
    /\ UNCHANGED << walkInputs, gitignore, pc, all_files, visited, evaluated,
                    pruned, noFail_files, mainVars, fmt >>

\* Lines 52-87: one iteration of the loop over os.walk, for the directory at
\* the head of the pending list; os.walk then descends into what is left of dirs
WalkDir ==
    /\ pc = "walk"
    /\ stack # <<>>
    /\ rootExists
    /\ LET top == Head(stack)
           listed == {top \o <<ListDirs(top)[i]>> : i \in 1..Len(ListDirs(top))}
           kept == KeepNotIgnored(top, ListDirs(top))
           gev == IF gitignore.present THEN listed ELSE {}
           rm == RemoveExcluded(top, kept,
                     [dirs |-> kept, evaluated |-> evaluated \cup gev,
                      matched |-> {}, raised |-> FALSE])
           fl == FileLoop([all_files |-> all_files, evaluated |-> rm.evaluated,
                           raised |-> rm.raised], top, ListFiles(top))
           nf == FileLoop([all_files |-> noFail_files, evaluated |-> {},
                           raised |-> rm.raised], top,
                          SelectSeq(ListFiles(top),
                              LAMBDA f : fstate[top \o <<f>>] # "unreadable"))
       IN  /\ visited' = visited \cup {top}
           /\ evaluated' = fl.evaluated
           /\ all_files' = fl.all_files
           /\ noFail_files' = nf.all_files
           /\ pruned' = pruned \cup {d \in listed : Ignored(d)} \cup rm.matched
           /\ IF fl.raised
              THEN pc' = "raised" /\ stack' = stack
              ELSE /\ pc' = pc
                   /\ stack' = [i \in 1..Len(rm.dirs) |-> top \o <<rm.dirs[i]>>]
                                  \o Tail(stack)
    /\ UNCHANGED << walkInputs, gitignore, mainVars, fmt >>

\* Line 89: os.walk is exhausted and all_files is returned
WalkReturn ==
    /\ pc = "walk"
    /\ stack = <<>>
    /\ pc' = "returned"
    /\ UNCHANGED << walkInputs, gitignore, walkState, mainVars, fmt >>

\* The walk before it starts
WalkIdle ==
    /\ stack = <<>>
    /\ all_files = <<>>
    /\ noFail_files = <<>>
    /\ visited = {}
    /\ evaluated = {}
    /\ pruned = {}

\* main's variables where only the walk or the formatter is looked at
NoArgs ==
    [ diff |-> FALSE, git_diff_branch |-> "none", git_log_branch |-> FALSE,
      template |-> "none", output |-> "none", json |-> FALSE, tokens |-> FALSE,
      copy |-> FALSE, encoding |-> "known" ]

MainIdle ==
    /\ args = NoArgs
    /\ env = [dirIsCwd |-> FALSE, gitignore_file |-> NoGitignore]
    /\ cwd = "start"
    /\ git = [cmd |-> "none", result |-> "none"]
    /\ git_diff_output = <<>>
    /\ template_content = "none"
    /\ token_count = 0
    /\ output_content = <<>>
    /\ stdout = <<>>
    /\ saved = "none"
    /\ clipboard = FALSE
    /\ error = "none"

\* The formatter's variable where it is not looked at
FmtIdle ==
    [ st |-> "idle", file_path |-> Root, text |-> <<>>, line_numbers |-> FALSE,
      with_cb |-> <<>>, without_cb |-> <<>> ]

\* A call of gather_project_files_content with any arguments, on any state of
\* the files
WalkInit ==
    /\ include_patterns \in PatternArgs
    /\ exclude_patterns \in PatternArgs
    /\ line_numbers \in BOOLEAN
    /\ codeblock \in BOOLEAN
    /\ gitignore \in IgnoreRules
    /\ rootExists \in BOOLEAN
    /\ fstate \in [Files -> FileStates]
    /\ rootExists \/ fstate = [f \in Files |-> "unreadable"]
    /\ pc = "gather"
    /\ WalkIdle
    /\ MainIdle
    /\ fmt = FmtIdle

WalkNext == GatherStart \/ WalkMissing \/ WalkDir \/ WalkReturn

Spec == WalkInit /\ [][WalkNext]_vars

\* ------------------------------------------------------------------- main

\* os.path.basename(directory)
DirectoryName == Root[Len(Root)]

\* What `git diff` prints when there are changes
DiffText == <<"d", "\n">>

\* How running git can end: it prints a diff, it prints nothing (no changes),
\* it exits nonzero (CalledProcessError), or it cannot be started (git is not
\* installed: FileNotFoundError)
GitOutcomes == {"changes", "nochanges", "nonzero", "cannot-start"}

\* len(encoding.encode(text)): the tokenizer is outside the program; here
\* every character (and every boilerplate chunk) is one token
Tokens(text) == Len(text)

\* jinja2.Template(template_content).render(context), for the default
\* template of lines 202-215 and for a template file standing for those a
\* user may give: "{{ git_diff_output }}{% for file in files %}{{
\* file.formatted_content }}{% endfor %}".  Jinja drops the template's last
\* newline.
RenderTemplate(tc, context) ==
    IF tc = "default"
    THEN <<"\n", "# Codebase: ">> \o context.directory_name \o <<"\n", "\n">>
           \o Concat([i \in 1..Len(context.files) |->
                        <<"\n">> \o context.files[i].formatted_content \o <<"\n">>])
           \o <<"\n", "\n">>
           \o (IF context.git_diff_output # <<>>
               THEN <<"\n", "# Git Diff Output", "\n", "\n">> ELSE <<>>)
           \o <<"\n", "\n", "Total Tokens: ">> \o IntToText(context.token_count)
    ELSE context.git_diff_output
           \o Concat([i \in 1..Len(context.files) |->
                        context.files[i].formatted_content])

\* Lines 174-178: the .gitignore of the directory is parsed when it exists
MainStart ==
    /\ pc = "main"
    /\ gitignore' = IF env.gitignore_file.present THEN env.gitignore_file
                    ELSE NoGitignore
    /\ pc' = "gather"
    /\ UNCHANGED << walkInputs, walkState, mainVars, fmt >>

\* Line 193: diff or git_diff_branch or git_log_branch
WantDiff ==
    args.diff \/ args.git_diff_branch # "none" \/ args.git_log_branch

\* Lines 191-193, no diff asked for
NoDiff ==
    /\ pc = "returned"
    /\ ~WantDiff
    /\ git_diff_output' = <<>>
    /\ pc' = "template"
    /\ UNCHANGED << walkInputs, gitignore, walkState, args, env, cwd, git,
                    template_content, token_count, output_content, stdout,
                    saved, clipboard, error, fmt >>

\* Lines 191-194 and get_git_diff (120-137): os.chdir(directory), then the
\* git command the arguments select; only CalledProcessError is caught
GetGitDiff ==
    /\ pc = "returned"
    /\ WantDiff
    /\ IF ~rootExists
       THEN /\ pc' = "aborted"
            /\ error' = "FileNotFoundError: os.chdir"
            /\ git' = [cmd |-> "none", result |-> "chdir-failed"]
            /\ UNCHANGED << cwd, git_diff_output >>
       ELSE /\ cwd' = IF env.dirIsCwd THEN cwd ELSE "directory"
            /\ IF args.git_diff_branch = "one"
               THEN /\ git' = [cmd |-> "none", result |-> "not-two-branches"]
                    /\ git_diff_output' = <<>>
                    /\ pc' = "template"
                    /\ error' = error
               ELSE \E outcome \in GitOutcomes :
                      /\ git' = [ cmd |-> IF args.git_diff_branch = "two"
                                          THEN "git diff a b"
                                          ELSE IF args.diff THEN "git diff --staged"
                                          ELSE "git diff",
                                  result |-> outcome ]
                      /\ IF outcome = "cannot-start"
                         THEN /\ pc' = "aborted"
                              /\ error' = "FileNotFoundError: git"
                              /\ git_diff_output' = git_diff_output
                         ELSE /\ pc' = "template"
                              /\ error' = error
                              /\ git_diff_output' =
                                    IF outcome = "changes" THEN DiffText ELSE <<>>
    /\ UNCHANGED << walkInputs, gitignore, walkState, args, env,
                    template_content, token_count, output_content, stdout,
                    saved, clipboard, fmt >>

\* Lines 196-215: the template file is opened by the path given, a relative
\* one against the working directory of the moment (the file lies in the
\* directory the program was started in); without one the default is used
LoadTemplate ==
    /\ pc = "template"
    /\ IF args.template = "relative" /\ cwd # "start"
       THEN /\ pc' = "aborted"
            /\ error' = "FileNotFoundError: template"
            /\ template_content' = template_content
       ELSE /\ pc' = "count"
            /\ error' = error
            /\ template_content' = IF args.template = "none" THEN "default"
                                   ELSE "custom"
    /\ UNCHANGED << walkInputs, gitignore, walkState, args, env, cwd, git,
                    git_diff_output, token_count, output_content, stdout,
                    saved, clipboard, fmt >>

\* Lines 217-223: the token count of the formatted records joined by
\* newlines; tiktoken.get_encoding raises for a name it does not know
CountTokens ==
    /\ pc = "count"
    /\ IF args.encoding = "unknown"
       THEN /\ pc' = "aborted"
            /\ error' = "ValueError: tiktoken.get_encoding"
            /\ token_count' = token_count
       ELSE LET full_prompt ==
                    JoinWith(<<"\n">>, [i \in 1..Len(all_files) |->
                                          all_files[i].formatted_content])
            IN  /\ token_count' = Tokens(full_prompt)
                /\ pc' = "render"
                /\ error' = error
    /\ UNCHANGED << walkInputs, gitignore, walkState, args, env, cwd, git,
                    git_diff_output, template_content, output_content, stdout,
                    saved, clipboard, fmt >>

\* Lines 225-234: the context is built and the template rendered
Render ==
    /\ pc = "render"
    /\ LET context == [ directory_name |-> DirectoryName,
                        files |-> all_files,
                        git_diff_output |-> git_diff_output,
                        token_count |-> token_count ]
       IN  output_content' = RenderTemplate(template_content, context)
    /\ pc' = "output"
    /\ UNCHANGED << walkInputs, gitignore, walkState, args, env, cwd, git,
                    git_diff_output, template_content, token_count, stdout,
                    saved, clipboard, error, fmt >>

\* Lines 236-247 changed to print the prompt only when it is not saved to a
\* file (the JSON envelope as before)
Output_UnlessSaved ==
    /\ pc = "output"
    /\ stdout' = IF ~args.json /\ args.output # "none" THEN stdout
                 ELSE Append(stdout,
                        [ kind |-> IF args.json THEN "json" ELSE "plain",
                          prompt |-> output_content,
                          token_count |-> IF args.json THEN token_count ELSE 0 ])
    /\ pc' = "save"
    /\ UNCHANGED << walkInputs, gitignore, walkState, args, env, cwd, git,
                    git_diff_output, template_content, token_count,
                    output_content, saved, clipboard, error, fmt >>

\* Lines 236-247: the JSON envelope or the prompt is printed
Output ==
    /\ pc = "output"
    /\ stdout' = Append(stdout,
                   [ kind |-> IF args.json THEN "json" ELSE "plain",
                     prompt |-> output_content,
                     token_count |-> IF args.json THEN token_count ELSE 0 ])
    /\ pc' = "save"
    /\ UNCHANGED << walkInputs, gitignore, walkState, args, env, cwd, git,
                    git_diff_output, template_content, token_count,
                    output_content, saved, clipboard, error, fmt >>

\* Lines 249-250 and save_to_file (103-110): with --output the prompt is
\* written to the path given, a relative one against the working directory
\* of the moment; a failure to write is caught and reported
Save ==
    /\ pc = "save"
    /\ IF args.output = "none"
       THEN saved' = saved
       ELSE \E ok \in BOOLEAN : saved' = IF ok THEN cwd ELSE "failed"
    /\ pc' = "tokens"
    /\ UNCHANGED << walkInputs, gitignore, walkState, args, env, cwd, git,
                    git_diff_output, template_content, token_count,
                    output_content, stdout, clipboard, error, fmt >>

\* Lines 252-253: with --tokens the count is printed
ShowTokens ==
    /\ pc = "tokens"
    /\ stdout' = IF args.tokens
                 THEN Append(stdout, [ kind |-> "tokens", prompt |-> <<>>,
                                       token_count |-> token_count ])
                 ELSE stdout
    /\ pc' = "copy"
    /\ UNCHANGED << walkInputs, gitignore, walkState, args, env, cwd, git,
                    git_diff_output, template_content, token_count,
                    output_content, saved, clipboard, error, fmt >>

\* Lines 255-256 and copy_to_clipboard (112-118): with --copy the prompt is
\* copied when pyperclip could be imported
Copy ==
    /\ pc = "copy"
    /\ IF args.copy
       THEN \E pyperclip \in BOOLEAN : clipboard' = pyperclip
       ELSE clipboard' = clipboard
    /\ pc' = "exit"
    /\ UNCHANGED << walkInputs, gitignore, walkState, args, env, cwd, git,
                    git_diff_output, template_content, token_count,
                    output_content, stdout, saved, error, fmt >>

\* A run of the program: any command line, a directory that exists or not,
\* lies at the working directory or elsewhere, with or without a .gitignore,
\* its files all with text, all of zero length or all unreadable
MainInit ==
    /\ args \in [ diff : BOOLEAN, git_diff_branch : {"none", "two", "one"},
                  git_log_branch : BOOLEAN,
                  template : {"none", "relative", "absolute"},
                  output : {"none", "relative"}, json : BOOLEAN,
                  tokens : BOOLEAN, copy : BOOLEAN,
                  encoding : {"known", "unknown"} ]
    /\ rootExists \in BOOLEAN
    /\ env \in [ dirIsCwd : BOOLEAN,
                 gitignore_file : {NoGitignore,
                                   [present |-> TRUE, ignored |-> {FileB}]} ]
    /\ rootExists \/ env = [dirIsCwd |-> FALSE, gitignore_file |-> NoGitignore]
    /\ fstate \in {[f \in Files |-> st] : st \in FileStates}
    /\ rootExists \/ fstate = [f \in Files |-> "unreadable"]
    /\ include_patterns = <<>>
    /\ exclude_patterns = <<>>
    /\ line_numbers = FALSE
    /\ codeblock = TRUE
    /\ gitignore = NoGitignore
    /\ pc = "main"
    /\ WalkIdle
    /\ cwd = "start"
    /\ git = [cmd |-> "none", result |-> "none"]
    /\ git_diff_output = <<>>
    /\ template_content = "none"
    /\ token_count = 0
    /\ output_content = <<>>
    /\ stdout = <<>>
    /\ saved = "none"
    /\ clipboard = FALSE
    /\ error = "none"
    /\ fmt = FmtIdle

MainNext ==
    \/ MainStart
    \/ WalkNext
    \/ NoDiff
    \/ GetGitDiff
    \/ LoadTemplate
    \/ CountTokens
    \/ Render
    \/ Output
    \/ Save
    \/ ShowTokens
    \/ Copy

SpecMain == MainInit /\ [][MainNext]_vars

\* -------------------------------------------------- the formatter alone

\* The files the formatter is applied to: p/a.g, p/c, p/.g, p/v/s/a.g
FmtPaths ==
    { FileA, Root \o << <<"c">> >>, Root \o << <<".", "g">> >>, FileSA }

\* Their texts: up to MaxText characters out of a letter, a newline and a
\* backtick, not empty
FmtTexts ==
    UNION { [1..n -> {"x", "\n", Backtick}] : n \in 1..MaxText }

FmtInit ==
    /\ fmt \in [ st : {"in"}, file_path : FmtPaths, text : FmtTexts,
                 line_numbers : BOOLEAN, with_cb : {<<>>}, without_cb : {<<>>} ]
    /\ include_patterns = <<>>
    /\ exclude_patterns = <<>>
    /\ line_numbers = FALSE
    /\ codeblock = TRUE
    /\ gitignore = NoGitignore
    /\ rootExists = TRUE
    /\ fstate = [f \in Files |-> "text"]
    /\ pc = "format"
    /\ WalkIdle
    /\ MainIdle

\* Lines 76-87 for one readable file, once with codeblock and once without
FormatBoth ==
    /\ fmt.st = "in"
    /\ LET content == GetFileContents([raises |-> FALSE, text |-> fmt.text],
                                      fmt.line_numbers)
       IN  fmt' = [fmt EXCEPT
                     !.st = "out",
                     !.with_cb = FileRecord(fmt.file_path, Root, content, TRUE),
                     !.without_cb = FileRecord(fmt.file_path, Root, content, FALSE)]
    /\ UNCHANGED << walkInputs, gitignore, pc, walkState, mainVars >>

FmtNext == FormatBoth

SpecFormat == FmtInit /\ [][FmtNext]_vars

\* ======================================================= properties

\* The paths of the records gathered so far
RecordPaths == {all_files[i].path : i \in 1..Len(all_files)}

\* str(file_path.relative_to(directory)) of a file of the tree
RelStr(f) == PathStr(RelativeTo(f, Root))

\* Some exclude pattern matches the path
ExcludeMatches(path) ==
    \E i \in 1..Len(excludes) :
        PatternParts(excludes[i]) # <<>> /\ PathMatch(path, excludes[i])

\* Some include pattern matches the path
IncludeMatches(path) ==
    \E i \in 1..Len(includes) :
        PatternParts(includes[i]) # <<>> /\ PathMatch(path, includes[i])

\* Whether `pre` is a proper ancestor of `path`
IsBelow(path, pre) ==
    /\ Len(pre) < Len(path)
    /\ SubSeq(path, 1, Len(pre)) = pre

\* The walk reached the directory holding the file
Reached(f) == SubSeq(f, 1, Len(f) - 1) \in visited

\* C1 (exclude always wins): a file that some exclude pattern matches is never
\* among the gathered records, whether or not an include pattern matches it too.
C1_ExcludeAlwaysWins ==
    \A f \in Files : ExcludeMatches(f) => RelStr(f) \notin RecordPaths

\* C1's case: the walk returned records, and it reached a readable, non-empty
\* file that an include pattern and an exclude pattern both match.
C1_Witness ==
    /\ pc = "returned"
    /\ all_files # <<>>
    /\ \E f \in Files :
          /\ Reached(f) /\ ~Ignored(f) /\ fstate[f] = "text"
          /\ IncludeMatches(f) /\ ExcludeMatches(f)

\* C2 (pruning is total): a directory the ignore rule or an exclude pattern
\* was true of is never walked, no directory or file below it is walked or
\* handed to a predicate, and no file below it is among the records.
C2_PruningIsTotal ==
    \A d \in pruned :
        /\ d \notin visited
        /\ \A e \in visited \cup evaluated : ~IsBelow(e, d)
        /\ \A f \in Files : IsBelow(f, d) => RelStr(f) \notin RecordPaths

\* C2's case: the walk returned after pruning, by an exclude pattern, a
\* directory with a readable file below it that no filter rejects.
C2_Witness ==
    /\ pc = "returned"
    /\ \E d \in pruned : \E f \in Files :
          /\ ~Ignored(d) /\ ExcludeMatches(d)
          /\ IsBelow(f, d) /\ fstate[f] = "text"
          /\ ~Ignored(f) /\ ~ExcludeMatches(f)
          /\ (includes = <<>> \/ IncludeMatches(f))

\* C3 (selection is an exact equivalence): when the walk returns, a file in a
\* directory the walk reached, not ignored and readable, is among the records
\* if and only if the include list is empty or an include pattern matches it,
\* and no exclude pattern matches it -- whatever its content, zero length too.
C3_SelectionIsExactEquivalence ==
    pc = "returned" =>
        \A f \in Files :
            (Reached(f) /\ ~Ignored(f) /\ fstate[f] # "unreadable") =>
                (RelStr(f) \in RecordPaths
                    <=> /\ (includes = <<>> \/ IncludeMatches(f))
                        /\ ~ExcludeMatches(f))

\* C7 (a read failure is isolated): as long as no pattern raised, the records
\* are those of the same walk over the tree without its unreadable files, in
\* the same order; and the walk is only ever aborted by a pattern without
\* segments, never by a file that cannot be read.
C7_ReadFailureIsIsolated ==
    /\ pc # "raised" => all_files = noFail_files
    /\ pc = "raised" =>
          \E i \in 1..Len(includes \o excludes) :
              PatternParts((includes \o excludes)[i]) = <<>>

\* C7's case: the walk returned; the first file of the root could not be
\* read although no filter rejects it, and the files after it, in the root
\* and below, are among the records.
C7_Witness ==
    /\ pc = "returned"
    /\ fstate[FileA] = "unreadable"
    /\ ~Ignored(FileA) /\ ~ExcludeMatches(FileA)
    /\ (includes = <<>> \/ IncludeMatches(FileA))
    /\ RelStr(FileB) \in RecordPaths
    /\ RelStr(FileSA) \in RecordPaths

\* A formatted record without its second line and its last line
WithoutFenceLines(t) ==
    LET lines == SplitLinesKeep(t)
    IN  Concat(<<lines[1]>> \o SubSeq(lines, 3, Len(lines) - 1))

\* C9 (code-block round trip): the record formatted with a code block has
\* the opening fence with the extension label as its second line and the
\* closing fence as its last; without these two lines it is the formatted
\* content of the record made without a code block, and both records hold the
\* same content.
C9_CodeBlockRoundTrip ==
    fmt.st = "out" =>
        LET lines == SplitLinesKeep(fmt.with_cb.formatted_content)
        IN  /\ Len(lines) >= 3
            /\ lines[2] = Fence \o ExtLabel(fmt.file_path) \o <<"\n">>
            /\ lines[Len(lines)] = Fence \o <<"\n">>
            /\ WithoutFenceLines(fmt.with_cb.formatted_content)
                  = fmt.without_cb.formatted_content
            /\ fmt.with_cb.content = fmt.without_cb.content

\* C9's case: a file with an extension, numbered lines, and a text that
\* holds a backtick and does not end with a newline, formatted both ways.
C9_Witness ==
    /\ fmt.st = "out"
    /\ fmt.line_numbers
    /\ ExtLabel(fmt.file_path) # <<>>
    /\ fmt.text[Len(fmt.text)] # "\n"
    /\ \E i \in 1..Len(fmt.text) : fmt.text[i] = Backtick
    /\ fmt.with_cb.formatted_content # fmt.without_cb.formatted_content

\* The run is at or past the output step
Rendered == pc \in {"output", "save", "tokens", "copy", "exit"}

\* C4 (the token count is that of the rendered output): once the prompt of
\* an existing directory is rendered, token_count -- in the context, in the
\* JSON envelope and on the --tokens line -- is the number of tokens of
\* output_content.
C4_TokenCountIsOfRenderedOutput ==
    (Rendered /\ rootExists) =>
        /\ token_count = Tokens(output_content)
        /\ \A i \in 1..Len(stdout) :
              stdout[i].kind \in {"json", "tokens"}
                  => stdout[i].token_count = Tokens(output_content)

\* The ways the prompt was delivered, the clipboard aside
PrimaryChannels ==
    {stdout[i].kind : i \in {j \in 1..Len(stdout) : stdout[j].kind # "tokens"}}
        \cup (IF saved \in {"start", "directory"} THEN {"file"} ELSE {})

\* The prompts printed to standard output
Printed == SelectSeq(stdout, LAMBDA item : item.kind # "tokens")

\* C5 as claimed (exactly one primary channel): a finished run on an
\* existing directory delivered the prompt by exactly one of plain print,
\* file and JSON envelope.
C5_ExactlyOnePrimaryChannel ==
    (pc = "exit" /\ rootExists) => Cardinality(PrimaryChannels) = 1

\* C5 as amended: a finished run printed the prompt to standard output
\* exactly once, as the JSON envelope with --json and as plain text without;
\* it tried to write the output file, in addition, exactly when --output was
\* given; and it copied to the clipboard only with --copy.
C5_PrintedOnceAndSavedInAddition ==
    pc = "exit" =>
        /\ Len(Printed) = 1
        /\ Printed[1].kind = (IF args.json THEN "json" ELSE "plain")
        /\ Printed[1].prompt = output_content
        /\ (saved # "none") <=> (args.output # "none")
        /\ clipboard => args.copy

\* C5's case: a finished run with --output and without --json that wrote
\* the file, having also printed the prompt.
C5_Witness ==
    /\ pc = "exit"
    /\ rootExists /\ all_files # <<>>
    /\ args.output = "relative" /\ ~args.json
    /\ saved \in {"start", "directory"}
    /\ PrimaryChannels = {"plain", "file"}

\* C6 (a missing root is fatal): when the directory does not exist the run
\* never gets to render or output a prompt.
C6_MissingRootIsFatal ==
    ~rootExists => ~Rendered /\ pc # "render" /\ stdout = <<>>

\* C8 (diff failures are recovered): when git exits nonzero, cannot be
\* started, or the directory cannot be entered, git_diff_output is empty and
\* no error of the diff collection ends the run; with no changes to show the
\* diff text is empty as well.
C8_DiffFailureIsRecovered ==
    /\ git.result \in {"nonzero", "cannot-start", "chdir-failed"} =>
          /\ git_diff_output = <<>>
          /\ error \notin {"FileNotFoundError: os.chdir", "FileNotFoundError: git"}
    /\ git.result = "nochanges" => git_diff_output = <<>>

\* C10 (the diff leaves the working directory alone): the process's working
\* directory is the one the program was started in, at every step of the run.
C10_WorkingDirectoryUnchanged ==
    cwd = "start"

====
